---- MODULE Spec2Model ----
(***************************************************************************)
(* ArXiv_Papers_Matching: the query builder (build_arxiv_query,            *)
(* add_category_filter), the pool filter (filter_dataframe_by_pools), the  *)
(* citation enrichment loop (enrich_with_citations), the arXiv fetch       *)
(* (arxiv_query_to_dataframe, extract_arxiv_id) and run_search, which      *)
(* calls them in turn.                                                     *)
(*                                                                         *)
(* A Python str is a sequence of one-character strings.  A regular         *)
(* expression is kept as the pattern string the code builds and is         *)
(* interpreted by Tokenise/MatchFrom, which implement the part of Python's *)
(* `re` syntax such a pattern can contain.                                 *)
(***************************************************************************)
EXTENDS Integers, Sequences, FiniteSets, TLC

VARIABLES
    pc,             \* position of the running call
    pools,          \* argument `pools`: list of lists of str
    categories,     \* argument `categories` of add_category_filter
    df,             \* argument `df`: the DataFrame handed to the running call
    pool_patterns,  \* filter_dataframe_by_pools: compiled pattern strings
    mask,           \* filter_dataframe_by_pools: df.apply(row_matches, axis=1)
    result,         \* value returned by the last finished call
    raised,         \* exception that left the last call (NoException if none)
    input,          \* the frame the caller handed to the first call
    first,          \* value returned by the previous call of the same function
    call,           \* number of the running call of the function
    text,           \* SpecMatch: the text handed to pattern.search
    found,          \* SpecMatch: pattern.search(text) is not None
    pool_queries,   \* build_arxiv_query: list of per-pool groups
    query,          \* build_arxiv_query / add_category_filter: the query string
    citation_counts,    \* enrich_with_citations: the four lists it fills
    citations_titles,
    citations_authors,
    citations_years,
    rows_done,      \* enrich_with_citations: rows the loop has finished
    lookups,        \* what the Semantic Scholar client does for each row
    url,            \* extract_arxiv_id: argument arxiv_url
    arxiv_id,       \* extract_arxiv_id: the value returned
    stream,         \* what client.results(search) yields, in order
    fail_after,     \* number of results after which client.results raises (-1: never)
    yielded,        \* arxiv_query_to_dataframe: results taken from the generator
    papers_data,    \* arxiv_query_to_dataframe: list of paper_info
    search_query,   \* arxiv_query_to_dataframe: argument search_query
    force_download, \* run_search: argument force_download
    use_citations,  \* run_search: argument use_citations
    csv,            \* the file data.csv: NoFile or the frame written to it
    csv_before,     \* data.csv when run_search started
    log,            \* run_search: the calls it has made, in order
    plot_saved      \* plot_papers_per_year: papers_per_year.png was written

queryVars == <<categories, pool_queries, query>>
matchVars == <<text, found>>
enrichVars == <<citation_counts, citations_titles, citations_authors,
                citations_years, rows_done, lookups>>

extractVars == <<url, arxiv_id>>
fetchVars == <<stream, fail_after, yielded, papers_data, search_query>>
runVars == <<force_download, use_citations, csv, csv_before, log, plot_saved>>

vars == <<pc, pools, df, pool_patterns, mask, result, raised, input, first,
          call, queryVars, matchVars, enrichVars, extractVars, fetchVars,
          runVars>>

\* pd.DataFrame(): no columns, no rows
EmptyFrame == [columns |-> {}, index |-> <<>>, rows |-> <<>>]

\* an exception: its type and its argument
Exception(type, arg) == [type |-> type, arg |-> arg]
NoException == Exception("", "")

\* the variables of the functions a specification does not run
QueryIdle == categories = <<>> /\ pool_queries = <<>> /\ query = <<>>
MatchIdle == text = <<>> /\ found = FALSE
FilterIdle ==
    /\ df = EmptyFrame
    /\ pool_patterns = <<>>
    /\ mask = <<>>
    /\ result = EmptyFrame
    /\ input = EmptyFrame
    /\ first = EmptyFrame
    /\ call = 1
EnrichIdle ==
    /\ citation_counts = <<>>
    /\ citations_titles = <<>>
    /\ citations_authors = <<>>
    /\ citations_years = <<>>
    /\ rows_done = 0
    /\ lookups = <<>>
ExtractIdle == url = <<>> /\ arxiv_id = <<>>
FetchIdle ==
    /\ stream = <<>>
    /\ fail_after = -1
    /\ yielded = 0
    /\ papers_data = <<>>
    /\ search_query = <<>>

\* data.csv does not exist
NoFile == [exists |-> FALSE, header |-> {}, lines |-> <<>>]

RunIdle ==
    /\ force_download = FALSE
    /\ use_citations = FALSE
    /\ csv = NoFile
    /\ csv_before = NoFile
    /\ log = <<>>
    /\ plot_saved = FALSE

-----------------------------------------------------------------------------
(* Characters *)

Uppers == <<"A","B","C","D","E","F","G","H","I","J","K","L","M",
            "N","O","P","Q","R","S","T","U","V","W","X","Y","Z">>
Lowers == <<"a","b","c","d","e","f","g","h","i","j","k","l","m",
            "n","o","p","q","r","s","t","u","v","w","x","y","z">>
Digits == {"0","1","2","3","4","5","6","7","8","9"}

\* \w of a str pattern: alphanumerics and the underscore
IsWordChar(c) ==
    \/ \E i \in DOMAIN Uppers : Uppers[i] = c \/ Lowers[i] = c
    \/ c \in Digits
    \/ c = "_"

\* \s of a str pattern
IsSpaceChar(c) == c \in {" ", "\t", "\n", "\r", "\f"}

\* re.IGNORECASE compares characters by their lower-case form
ToLower(c) ==
    IF \E i \in DOMAIN Uppers : Uppers[i] = c
    THEN Lowers[CHOOSE i \in DOMAIN Uppers : Uppers[i] = c]
    ELSE c

\* characters re.escape prefixes with a backslash
SpecialChars == {"(", ")", "[", "]", "{", "}", "?", "*", "+", "-", "|", "^",
                 "$", "\\", ".", "&", "~", "#", " ", "\t", "\n", "\r", "\f"}

-----------------------------------------------------------------------------
(* str operations *)

RECURSIVE Join(_, _)
\* sep.join(parts)
Join(parts, sep) ==
    IF parts = <<>> THEN <<>>
    ELSE IF Len(parts) = 1 THEN parts[1]
    ELSE parts[1] \o sep \o Join(Tail(parts), sep)

RECURSIVE Replace(_, _, _)
\* s.replace(old, new), old non-empty: leftmost non-overlapping occurrences
Replace(s, old, new) ==
    IF Len(s) < Len(old) THEN s
    ELSE IF SubSeq(s, 1, Len(old)) = old
         THEN new \o Replace(SubSeq(s, Len(old) + 1, Len(s)), old, new)
         ELSE <<s[1]>> \o Replace(Tail(s), old, new)

\* `sub in s`
Contains(s, c) == \E i \in DOMAIN s : s[i] = c

RECURSIVE re_escape(_)
\* re.escape(term)
re_escape(s) ==
    IF s = <<>> THEN <<>>
    ELSE (IF s[1] \in SpecialChars THEN <<"\\", s[1]>> ELSE <<s[1]>>)
         \o re_escape(Tail(s))

-----------------------------------------------------------------------------
(* The regular expressions of filter_dataframe_by_pools *)

\* r'\b' + re.escape(term).replace(r'\ ', r'\s+') + r'\b'
TermPattern(term) ==
    <<"\\", "b">>
    \o Replace(re_escape(term), <<"\\", " ">>, <<"\\", "s", "+">>)
    \o <<"\\", "b">>

\* '(' + '|'.join(escaped_terms) + ')'
PoolPattern(pool) ==
    <<"(">>
    \o Join([i \in DOMAIN pool |-> TermPattern(pool[i])], <<"|">>)
    \o <<")">>

(* re: what a compiled pattern string means.  A backslash takes the next    *)
(* character with it: \b is a word boundary, \s a whitespace character      *)
(* (\s+ one or more), any other escaped character stands for itself.  An    *)
(* unescaped '.' is any character but a line break, an unescaped '|'        *)
(* separates alternatives, the outer parentheses are one group.             *)

Tok(k, c) == [k |-> k, c |-> c]

RECURSIVE Tokenise(_)
Tokenise(s) ==
    IF s = <<>> THEN <<>>
    ELSE IF s[1] = "\\" /\ Len(s) >= 2
    THEN IF s[2] = "b"
         THEN <<Tok("bound", "")>> \o Tokenise(SubSeq(s, 3, Len(s)))
         ELSE IF s[2] = "s"
         THEN IF Len(s) >= 3 /\ s[3] = "+"
              THEN <<Tok("spaces", "")>> \o Tokenise(SubSeq(s, 4, Len(s)))
              ELSE <<Tok("space", "")>> \o Tokenise(SubSeq(s, 3, Len(s)))
         ELSE <<Tok("lit", s[2])>> \o Tokenise(SubSeq(s, 3, Len(s)))
    ELSE IF s[1] = "."
    THEN <<Tok("any", "")>> \o Tokenise(Tail(s))
    ELSE <<Tok("lit", s[1])>> \o Tokenise(Tail(s))

RECURSIVE SplitAlternatives(_, _, _)
\* the alternatives of a group body: split at each unescaped '|'
SplitAlternatives(s, cur, acc) ==
    IF s = <<>> THEN Append(acc, cur)
    ELSE IF s[1] = "\\" /\ Len(s) >= 2
    THEN SplitAlternatives(SubSeq(s, 3, Len(s)), cur \o <<s[1], s[2]>>, acc)
    ELSE IF s[1] = "|"
    THEN SplitAlternatives(Tail(s), <<>>, Append(acc, cur))
    ELSE SplitAlternatives(Tail(s), Append(cur, s[1]), acc)

\* the alternatives of the pattern '(' ... ')'
Alternatives(pattern) ==
    SplitAlternatives(SubSeq(pattern, 2, Len(pattern) - 1), <<>>, <<>>)

\* \b at position i (between s[i-1] and s[i]): exactly one side is a word character
IsBoundary(s, i) ==
    (i > 1 /\ IsWordChar(s[i - 1])) # (i <= Len(s) /\ IsWordChar(s[i]))

RECURSIVE MatchFrom(_, _, _, _)
\* tokens toks[k..] match s starting at position i (re.IGNORECASE)
MatchFrom(toks, k, s, i) ==
    IF k > Len(toks) THEN TRUE
    ELSE LET t == toks[k] IN
         CASE t.k = "bound" ->
                IsBoundary(s, i) /\ MatchFrom(toks, k + 1, s, i)
           [] t.k = "lit" ->
                /\ i <= Len(s)
                /\ ToLower(s[i]) = ToLower(t.c)
                /\ MatchFrom(toks, k + 1, s, i + 1)
           [] t.k = "any" ->
                i <= Len(s) /\ s[i] # "\n" /\ MatchFrom(toks, k + 1, s, i + 1)
           [] t.k = "space" ->
                i <= Len(s) /\ IsSpaceChar(s[i]) /\ MatchFrom(toks, k + 1, s, i + 1)
           [] t.k = "spaces" ->
                \E n \in 1..(Len(s) - i + 1) :
                    /\ \A j \in i..(i + n - 1) : IsSpaceChar(s[j])
                    /\ MatchFrom(toks, k + 1, s, i + n)

\* pattern.search(s) is not None
Search(pattern, s) ==
    LET alts == Alternatives(pattern) IN
    \E a \in DOMAIN alts :
        LET toks == Tokenise(alts[a]) IN
        \E i \in 1..(Len(s) + 1) : MatchFrom(toks, 1, s, i)

\* all str over alphabet A of length at most n
StringsUpTo(A, n) == UNION {[1..k -> A] : k \in 0..n}

-----------------------------------------------------------------------------
(* SpecMatch: one pool matcher, built as filter_dataframe_by_pools builds   *)
(* it for a pool of one term, searched in one text                          *)

MaxTermLen == 3
MaxTextLen == 4
MatchAlphabet == {"a", "A", " ", "\t", "."}

InitMatch ==
    /\ pc = "match_start"
    /\ pools \in {<<<<t>>>> : t \in StringsUpTo(MatchAlphabet, MaxTermLen)}
    /\ text \in StringsUpTo(MatchAlphabet, MaxTextLen)
    /\ found = FALSE
    /\ df = EmptyFrame
    /\ pool_patterns = <<>>
    /\ mask = <<>>
    /\ result = EmptyFrame
    /\ raised = NoException
    /\ input = EmptyFrame
    /\ first = EmptyFrame
    /\ call = 1
    /\ QueryIdle
    /\ EnrichIdle
    /\ ExtractIdle
    /\ FetchIdle
    /\ RunIdle

\* lines 25-36 for the one pool
MatchCompile ==
    /\ pc = "match_start"
    /\ pool_patterns' = <<PoolPattern(pools[1])>>
    /\ pc' = "match_compiled"
    /\ UNCHANGED <<pools, df, mask, result, raised, input, first, call,
                   queryVars, matchVars, enrichVars,
                   extractVars, fetchVars, runVars>>

\* line 40: pattern.search(text)
MatchSearch ==
    /\ pc = "match_compiled"
    /\ found' = Search(pool_patterns[1], text)
    /\ pc' = "match_done"
    /\ UNCHANGED <<pools, df, pool_patterns, mask, result, raised, input, first,
                   call, text, queryVars, enrichVars,
                   extractVars, fetchVars, runVars>>

NextMatch == MatchCompile \/ MatchSearch

SpecMatch == InitMatch /\ [][NextMatch]_vars

-----------------------------------------------------------------------------
(* DataFrames.  A frame has a set of column labels, a list of index labels  *)
(* and one row per index label; a row maps each column label to a cell.    *)
(* A cell is a str, or the null None or NaN.                                *)

Str(s) == [null |-> "", s |-> s]
None == [null |-> "None", s |-> <<>>]
NaN == [null |-> "nan", s |-> <<>>]

\* f"{cell}": str() of the cell
FormatCell(v) ==
    CASE v.null = "" -> v.s
      [] v.null = "None" -> <<"N", "o", "n", "e">>
      [] v.null = "nan" -> <<"n", "a", "n">>

\* df.empty: an axis of length 0
DfEmpty(d) == Len(d.index) = 0 \/ d.columns = {}

\* the frame holding `recs` with the columns `cols`; the index labels are 1..n,
\* as in a frame that lost its first row
Frame(cols, recs) ==
    [columns |-> cols,
     index |-> [i \in DOMAIN recs |-> i],
     rows |-> [i \in DOMAIN recs |-> [c \in cols |-> recs[i][c]]]]

RECURSIVE Positions(_, _)
\* the positions i >= k at which the mask is True, ascending
Positions(m, k) ==
    IF k > Len(m) THEN <<>>
    ELSE (IF m[k] THEN <<k>> ELSE <<>>) \o Positions(m, k + 1)

-----------------------------------------------------------------------------
(* filter_dataframe_by_pools *)

\* a fast path that returns a fresh pd.DataFrame() instead of its argument
FastPathResultFresh(d) == EmptyFrame

\* line 21: return df
FastPathResult(d) == d

\* line 39: text = f"{row['title']} {row['summary']}"
RowText(row) == FormatCell(row["title"]) \o <<" ">> \o FormatCell(row["summary"])

\* any(...) written for all(...)
row_matches_any(row, patterns) ==
    \E p \in DOMAIN patterns : Search(patterns[p], RowText(row))

\* line 40: all(pattern.search(text) for pattern in pool_patterns)
row_matches(row, patterns) ==
    \A p \in DOMAIN patterns : Search(patterns[p], RowText(row))

\* df[mask].iloc[1:]: the first surviving row is lost
SelectRowsSkipFirst(d, m) ==
    LET keep == Tail(Positions(m, 1)) IN
    [columns |-> d.columns,
     index |-> [i \in DOMAIN keep |-> i - 1],
     rows |-> [i \in DOMAIN keep |-> d.rows[keep[i]]]]

\* line 44: df[mask].reset_index(drop=True)
SelectRows(d, m) ==
    LET keep == Positions(m, 1) IN
    [columns |-> d.columns,
     index |-> [i \in DOMAIN keep |-> i - 1],
     rows |-> [i \in DOMAIN keep |-> d.rows[keep[i]]]]

\* lines 20-21: the fast path
FilterFastPath ==
    /\ pc = "filter_start"
    /\ DfEmpty(df)
    /\ result' = FastPathResult(df)
    /\ pc' = "filter_done"
    /\ UNCHANGED <<pools, df, pool_patterns, mask, raised, input, first, call,
                   queryVars, matchVars, enrichVars,
                   extractVars, fetchVars, runVars>>

\* line 24: pool_patterns = []
FilterBegin ==
    /\ pc = "filter_start"
    /\ ~DfEmpty(df)
    /\ pool_patterns' = <<>>
    /\ pc' = "filter_compile"
    /\ UNCHANGED <<pools, df, mask, result, raised, input, first, call,
                   queryVars, matchVars, enrichVars,
                   extractVars, fetchVars, runVars>>

\* lines 25-36: one iteration of `for pool in pools`
FilterCompilePool ==
    /\ pc = "filter_compile"
    /\ Len(pool_patterns) < Len(pools)
    /\ pool_patterns' =
           Append(pool_patterns, PoolPattern(pools[Len(pool_patterns) + 1]))
    /\ UNCHANGED <<pc, pools, df, mask, result, raised, input, first, call,
                   queryVars, matchVars, enrichVars,
                   extractVars, fetchVars, runVars>>

\* line 43: mask = df.apply(row_matches, axis=1); row['title'] or
\* row['summary'] of a frame without that column raises KeyError
FilterApply ==
    /\ pc = "filter_compile"
    /\ Len(pool_patterns) = Len(pools)
    /\ IF "title" \notin df.columns
       THEN /\ raised' = Exception("KeyError", "title")
            /\ pc' = "filter_done"
            /\ UNCHANGED mask
       ELSE IF "summary" \notin df.columns
       THEN /\ raised' = Exception("KeyError", "summary")
            /\ pc' = "filter_done"
            /\ UNCHANGED mask
       ELSE /\ mask' = [i \in DOMAIN df.rows |->
                           row_matches(df.rows[i], pool_patterns)]
            /\ pc' = "filter_mask"
            /\ UNCHANGED raised
    /\ UNCHANGED <<pools, df, pool_patterns, result, input, first, call,
                   queryVars, matchVars, enrichVars,
                   extractVars, fetchVars, runVars>>

\* lines 44-45
FilterReturn ==
    /\ pc = "filter_mask"
    /\ result' = SelectRows(df, mask)
    /\ pc' = "filter_done"
    /\ UNCHANGED <<pools, df, pool_patterns, mask, raised, input, first, call,
                   queryVars, matchVars, enrichVars,
                   extractVars, fetchVars, runVars>>

\* the caller filters the returned frame again with the same pools
FilterAgain ==
    /\ pc = "filter_done"
    /\ raised = NoException
    /\ call = 1
    /\ first' = result
    /\ df' = result
    /\ call' = 2
    /\ pool_patterns' = <<>>
    /\ mask' = <<>>
    /\ pc' = "filter_start"
    /\ UNCHANGED <<pools, result, raised, input, queryVars, matchVars, enrichVars,
                   extractVars, fetchVars, runVars>>

\* bounds of the filter's inputs
MaxRows == 2
MaxPools == 2

\* str literals
S_a == <<"a">>
S_b == <<"b">>
S_ab == <<"a", "b">>
S_a_b == <<"a", " ", "b">>
S_aTABb == <<"a", "\t", "b">>
S_dot == <<".">>
S_space == <<" ">>
S_empty == <<>>

\* the pools a pool set is made of: well-formed ones, an empty pool, a pool
\* with an empty term and one with a whitespace-only term
PoolChoices ==
    { <<S_a>>, <<S_a_b, S_dot>>, <<S_aTABb, S_b>>,
      <<>>, <<S_empty>>, <<S_b, S_space>> }

PoolSets == UNION {[1..n -> PoolChoices] : n \in 0..MaxPools}

\* the records a frame is made of
RecordChoices ==
    { [title |-> Str(S_a), summary |-> Str(<<"B">>)],
      [title |-> Str(S_ab), summary |-> Str(S_empty)],
      [title |-> Str(<<"A", " ", " ", "b">>), summary |-> Str(<<"a", ".", "b">>)],
      [title |-> None, summary |-> Str(S_b)],
      [title |-> Str(S_a), summary |-> NaN] }

ColumnChoices == { {"title", "summary"}, {"title"}, {"summary"} }

Frames ==
    { Frame(cols, recs) :
        cols \in ColumnChoices,
        recs \in UNION {[1..n -> RecordChoices] : n \in 0..MaxRows} }


InitFilter ==
    /\ pc = "filter_start"
    /\ pools \in PoolSets
    /\ df \in Frames
    /\ input = df
    /\ pool_patterns = <<>>
    /\ mask = <<>>
    /\ result = EmptyFrame
    /\ raised = NoException
    /\ first = EmptyFrame
    /\ call = 1
    /\ QueryIdle
    /\ MatchIdle
    /\ EnrichIdle
    /\ ExtractIdle
    /\ FetchIdle
    /\ RunIdle

NextFilter ==
    \/ FilterFastPath
    \/ FilterBegin
    \/ FilterCompilePool
    \/ FilterApply
    \/ FilterReturn
    \/ FilterAgain

SpecFilter == InitFilter /\ [][NextFilter]_vars

-----------------------------------------------------------------------------
(* build_arxiv_query and add_category_filter *)

OR_ == <<" ", "O", "R", " ">>
AND_ == <<" ", "A", "N", "D", " ">>
QUOTE == <<"\"">>

\* a term put in double quotes whatever it contains
FormatTermAlwaysQuoted(term) == QUOTE \o term \o QUOTE

\* build_arxiv_query.py lines 15-16: quotes only if the term has spaces
FormatTerm(term) ==
    IF Contains(term, " ") THEN QUOTE \o term \o QUOTE ELSE term

\* build_arxiv_query.py lines 11-19
format_pool(pool) ==
    Join([i \in DOMAIN pool |-> FormatTerm(pool[i])], OR_)

\* build_arxiv_query.py line 25: f"(ti:({formatted}) OR abs:({formatted}))"
PoolQuery(formatted) ==
    <<"(", "t", "i", ":", "(">> \o formatted
    \o <<")">> \o OR_ \o <<"a", "b", "s", ":", "(">> \o formatted
    \o <<")", ")">>

\* the category clause put first: f"{category_filter} AND ({query})"
add_category_filter_first(q, cats) ==
    <<"c", "a", "t", ":", "(">> \o Join(cats, OR_) \o <<")">>
    \o AND_ \o <<"(">> \o q \o <<")">>

\* add_category_filter.py lines 3-5
add_category_filter(q, cats) ==
    LET category_filter ==
            <<"c", "a", "t", ":", "(">> \o Join(cats, OR_) \o <<")">>
    IN  <<"(">> \o q \o <<")">> \o AND_ \o category_filter

\* build_arxiv_query.py lines 23-25: one iteration of `for pool in pools`
QueryPool ==
    /\ pc = "query_start"
    /\ Len(pool_queries) < Len(pools)
    /\ pool_queries' =
           Append(pool_queries,
                  PoolQuery(format_pool(pools[Len(pool_queries) + 1])))
    /\ UNCHANGED <<pc, pools, categories, query, df, pool_patterns, mask,
                   result, raised, input, first, call, matchVars, enrichVars,
                   extractVars, fetchVars, runVars>>

\* build_arxiv_query.py lines 28-29
QueryJoin ==
    /\ pc = "query_start"
    /\ Len(pool_queries) = Len(pools)
    /\ query' = Join(pool_queries, AND_)
    /\ pc' = "query_built"
    /\ UNCHANGED <<pools, categories, pool_queries, df, pool_patterns, mask,
                   result, raised, input, first, call, matchVars, enrichVars,
                   extractVars, fetchVars, runVars>>

\* run_search.py line 38: query = add_category_filter(query, categories)
QueryAddCategories ==
    /\ pc = "query_built"
    /\ query' = add_category_filter(query, categories)
    /\ pc' = "query_done"
    /\ UNCHANGED <<pools, categories, pool_queries, df, pool_patterns, mask,
                   result, raised, input, first, call, matchVars, enrichVars,
                   extractVars, fetchVars, runVars>>

MaxCategories == 2

CategoryChoices ==
    { <<"c", "s", ".", "*">>, <<"s", "t", "a", "t", ".", "M", "L">> }

InitQuery ==
    /\ pc = "query_start"
    /\ pools \in PoolSets
    /\ categories \in UNION {[1..n -> CategoryChoices] : n \in 0..MaxCategories}
    /\ pool_queries = <<>>
    /\ query = <<>>
    /\ raised = NoException
    /\ FilterIdle
    /\ MatchIdle
    /\ EnrichIdle
    /\ ExtractIdle
    /\ FetchIdle
    /\ RunIdle

NextQuery == QueryPool \/ QueryJoin \/ QueryAddCategories

SpecQuery == InitQuery /\ [][NextQuery]_vars

\* the query builder and the pool filter, each run on its own input
InitPools == InitQuery \/ InitFilter

NextPools == NextQuery \/ NextFilter

SpecPools == InitPools /\ [][NextPools]_vars

-----------------------------------------------------------------------------
(* enrich_with_citations *)

\* a cell holding a Python object that is not a str: a number, a list
Obj(v) == [null |-> "", s |-> v]

\* where the try block (lines 28-47) raises for a row, if it does:
\* sch.get_paper (line 28), paper.citationCount (line 41), iterating
\* paper.citations (line 45), iterating c.authors (line 46), c.year (line 47)
FailPoints == {"none", "get_paper", "citationCount", "titles", "authors", "years"}

\* lines 44-47 up to the statement that raises: the appends that happened
AppendedBefore(fails) ==
    CASE fails \in {"get_paper", "citationCount"} -> 0
      [] fails = "titles" -> 1
      [] fails = "authors" -> 2
      [] fails = "years" -> 3
      [] fails = "none" -> 4

\* lines 24-47: the try block for the next row
EnrichTry ==
    /\ pc = "enrich_loop"
    /\ rows_done < Len(df.rows)
    /\ LET look == lookups[rows_done + 1]
           paper == look.paper
           n == AppendedBefore(look.fails)
       IN  /\ citation_counts' =
                  IF n >= 1 THEN Append(citation_counts, Obj(paper.citationCount))
                  ELSE citation_counts
           /\ citations_titles' =
                  IF n >= 2 THEN Append(citations_titles, Obj(paper.titles))
                  ELSE citations_titles
           /\ citations_authors' =
                  IF n >= 3 THEN Append(citations_authors, Obj(paper.authors))
                  ELSE citations_authors
           /\ citations_years' =
                  IF n >= 4 THEN Append(citations_years, Obj(paper.years))
                  ELSE citations_years
           /\ IF look.fails = "none"
              THEN rows_done' = rows_done + 1 /\ UNCHANGED pc
              ELSE pc' = "enrich_except" /\ UNCHANGED rows_done
    /\ UNCHANGED <<pools, df, pool_patterns, mask, result, raised, input, first,
                   call, lookups, queryVars, matchVars,
                   extractVars, fetchVars, runVars>>

\* lines 49-54: the except block
EnrichExcept ==
    /\ pc = "enrich_except"
    /\ citation_counts' = Append(citation_counts, None)
    /\ citations_titles' = Append(citations_titles, None)
    /\ citations_authors' = Append(citations_authors, None)
    /\ citations_years' = Append(citations_years, None)
    /\ rows_done' = rows_done + 1
    /\ pc' = "enrich_loop"
    /\ UNCHANGED <<pools, df, pool_patterns, mask, result, raised, input, first,
                   call, lookups, queryVars, matchVars,
                   extractVars, fetchVars, runVars>>

\* lines 56-61: df[column] = values raises ValueError when the list is not as
\* long as the index
EnrichAssign ==
    /\ pc = "enrich_loop"
    /\ rows_done = Len(df.rows)
    /\ pc' = "enrich_done"
    /\ IF Len(citation_counts) # Len(df.index)
       THEN raised' = Exception("ValueError", "citation_count") /\ UNCHANGED result
       ELSE IF Len(citations_titles) # Len(df.index)
       THEN raised' = Exception("ValueError", "citations_titles") /\ UNCHANGED result
       ELSE IF Len(citations_authors) # Len(df.index)
       THEN raised' = Exception("ValueError", "citations_authors") /\ UNCHANGED result
       ELSE IF Len(citations_years) # Len(df.index)
       THEN raised' = Exception("ValueError", "citations_years") /\ UNCHANGED result
       ELSE /\ result' =
                  [columns |-> df.columns \cup {"citation_count", "citations_titles",
                                                "citations_authors", "citations_years"},
                   index |-> df.index,
                   rows |-> [i \in DOMAIN df.rows |->
                       [c \in {"citation_count", "citations_titles",
                               "citations_authors", "citations_years"} |->
                            CASE c = "citation_count" -> citation_counts[i]
                              [] c = "citations_titles" -> citations_titles[i]
                              [] c = "citations_authors" -> citations_authors[i]
                              [] c = "citations_years" -> citations_years[i]]
                       @@ df.rows[i]]]
            /\ UNCHANGED raised
    /\ UNCHANGED <<pools, df, pool_patterns, mask, input, first, call,
                   citation_counts, citations_titles, citations_authors,
                   citations_years, rows_done, lookups, queryVars, matchVars,
                   extractVars, fetchVars, runVars>>

MaxEnrichRows == 2

\* what sch.get_paper returns for a paper nobody cites and for a paper cited once
Papers ==
    { [citationCount |-> 0, titles |-> <<>>, authors |-> <<>>, years |-> <<>>],
      [citationCount |-> 1, titles |-> <<"t">>, authors |-> <<<<"n">>>>,
       years |-> <<2020>>] }

\* the frame of n papers, the i-th with arxiv_id i
PapersFrame(n) ==
    [columns |-> {"arxiv_id"},
     index |-> [i \in 1..n |-> i - 1],
     rows |-> [i \in 1..n |-> [c \in {"arxiv_id"} |-> Obj(i)]]]

InitEnrich ==
    /\ pc = "enrich_loop"
    /\ \E n \in 0..MaxEnrichRows :
           /\ df = PapersFrame(n)
           /\ lookups \in [1..n -> [paper : Papers, fails : FailPoints]]
    /\ citation_counts = <<>>
    /\ citations_titles = <<>>
    /\ citations_authors = <<>>
    /\ citations_years = <<>>
    /\ rows_done = 0
    /\ pools = <<>>
    /\ pool_patterns = <<>>
    /\ mask = <<>>
    /\ result = EmptyFrame
    /\ raised = NoException
    /\ input = df
    /\ first = EmptyFrame
    /\ call = 1
    /\ QueryIdle
    /\ MatchIdle
    /\ ExtractIdle
    /\ FetchIdle
    /\ RunIdle

NextEnrich == EnrichTry \/ EnrichExcept \/ EnrichAssign

SpecEnrich == InitEnrich /\ [][NextEnrich]_vars

-----------------------------------------------------------------------------
(***************************************************************************)
(* extract_arxiv_id.  The pattern is r"arxiv\.org/abs/([^v/]+)": a literal  *)
(* text (\. is a literal dot) followed by one group, a greedy run of one    *)
(* or more characters other than 'v' and '/'.  re.search takes the leftmost *)
(* position where the whole pattern matches.                                *)
(***************************************************************************)
ArxivAbsLiteral == <<"a", "r", "x", "i", "v", ".", "o", "r", "g", "/", "a", "b", "s", "/">>

\* [^v/]
IdClassChar(c) == c \notin {"v", "/"}

LiteralAt(s, i) ==
    /\ i + Len(ArxivAbsLiteral) - 1 <= Len(s)
    /\ SubSeq(s, i, i + Len(ArxivAbsLiteral) - 1) = ArxivAbsLiteral

\* start positions at which the pattern matches: the literal, then at least
\* one character of the class
ArxivIdMatches(s) ==
    { i \in 1..Len(s) :
        /\ LiteralAt(s, i)
        /\ i + Len(ArxivAbsLiteral) <= Len(s)
        /\ IdClassChar(s[i + Len(ArxivAbsLiteral)]) }

\* m.group(1) of the match starting at i: the longest run of class
\* characters after the literal
ArxivIdGroup(s, i) ==
    LET from == i + Len(ArxivAbsLiteral)
        ends == { k \in from..Len(s) : \A j \in from..k : IdClassChar(s[j]) }
        last == CHOOSE k \in ends : \A o \in ends : o <= k
    IN  SubSeq(s, from, last)

extract_arxiv_id(arxiv_url) ==
    IF arxiv_url.null # "" \/ arxiv_url.s = <<>>
    THEN None
    ELSE LET starts == ArxivIdMatches(arxiv_url.s)
         IN  IF starts = {}
             THEN None
             ELSE Str(ArxivIdGroup(arxiv_url.s,
                                   CHOOSE i \in starts :
                                       \A o \in starts : i <= o))

Extract ==
    /\ pc = "extract_start"
    /\ arxiv_id' = extract_arxiv_id(url)
    /\ pc' = "extract_done"
    /\ UNCHANGED <<pools, df, pool_patterns, mask, result, raised, input, first,
                   call, queryVars, matchVars, enrichVars, url, fetchVars,
                   runVars>>

(***************************************************************************)
(* SpecExtract: extract_arxiv_id on a URL, an empty str or None             *)
(***************************************************************************)
MaxIdDigits == 2

Schemes == { <<"h", "t", "t", "p", "s", ":", "/", "/">>,
             <<"h", "t", "t", "p", ":", "/", "/">> }

ArxivAbs == <<"a", "r", "x", "i", "v", ".", "o", "r", "g", "/", "a", "b", "s", "/">>
UrlPaths == { ArxivAbs,
              <<"a", "r", "x", "i", "v", ".", "o", "r", "g", "/", "p", "d", "f", "/">>,
              <<"a", "r", "x", "i", "v", "-", "o", "r", "g", "/", "a", "b", "s", "/">> }

DigitStrings == StringsUpTo({"0", "7"}, MaxIdDigits) \ {<<>>}

\* identifiers since 2007 (2301.12345) and before (hep-th/9901001)
NewIds == { a \o <<".">> \o b : a \in DigitStrings, b \in DigitStrings }
Archives == { <<"h", "e", "p", "-", "t", "h">>,
              <<"s", "o", "l", "v", "-", "i", "n", "t">>,
              <<"m", "a", "t", "h">> }
OldIds == { a \o <<"/">> \o b : a \in Archives, b \in DigitStrings }
ArxivIds == NewIds \cup OldIds

VersionNumbers == { <<"1">>, <<"1", "2">> }
VersionSuffixes == { <<>> } \cup { <<"v">> \o n : n \in VersionNumbers }

Urls ==
    { sc \o p \o id \o v :
        sc \in Schemes, p \in UrlPaths, id \in ArxivIds, v \in VersionSuffixes }

InitExtract ==
    /\ pc = "extract_start"
    /\ url \in { Str(u) : u \in Urls } \cup { Str(<<>>), None }
    /\ arxiv_id = <<>>
    /\ pools = <<>>
    /\ df = EmptyFrame
    /\ pool_patterns = <<>>
    /\ mask = <<>>
    /\ result = EmptyFrame
    /\ raised = NoException
    /\ input = EmptyFrame
    /\ first = EmptyFrame
    /\ call = 0
    /\ QueryIdle
    /\ MatchIdle
    /\ EnrichIdle
    /\ FetchIdle
    /\ RunIdle

NextExtract == Extract

SpecExtract == InitExtract /\ [][NextExtract]_vars

-----------------------------------------------------------------------------
(***************************************************************************)
(* arxiv_query_to_dataframe.  client.results(search) is a generator: it     *)
(* yields the results of `stream` one by one and, when fail_after is the    *)
(* number of results it has yielded, raises instead of yielding the next.   *)
(* Of a result the title, the entry_id, the publication date and the        *)
(* summary are kept; of paper_info the keys computed from them.             *)
(***************************************************************************)
\* line 55: if result.published
HasPublishedAlways(r) == TRUE

HasPublished(r) == r.published.null = ""

\* lines 57-70
PaperInfo(r) ==
    [title |-> r.title,
     url |-> r.entry_id,
     arxiv_id |-> extract_arxiv_id(r.entry_id),
     year |-> Obj(r.published.s),
     summary |-> r.summary]

PaperColumns == {"title", "url", "arxiv_id", "year", "summary"}

\* line 86: pd.DataFrame(papers_data); an empty list gives a frame without
\* columns
DataFrame(data) ==
    IF data = <<>>
    THEN EmptyFrame
    ELSE [columns |-> PaperColumns,
          index |-> [i \in DOMAIN data |-> i - 1],
          rows |-> data]

\* lines 30-50
FetchBegin ==
    /\ pc = "fetch_start"
    /\ papers_data' = <<>>
    /\ yielded' = 0
    /\ pc' = "fetch_loop"
    /\ UNCHANGED <<pools, df, pool_patterns, mask, result, raised, input, first,
                   call, queryVars, matchVars, enrichVars, extractVars,
                   stream, fail_after, search_query, runVars>>

\* lines 54-77: the generator yields the next result
FetchNext ==
    /\ pc = "fetch_loop"
    /\ yielded # fail_after
    /\ yielded < Len(stream)
    /\ papers_data' = IF HasPublished(stream[yielded + 1])
                      THEN Append(papers_data, PaperInfo(stream[yielded + 1]))
                      ELSE papers_data
    /\ yielded' = yielded + 1
    /\ UNCHANGED <<pc, pools, df, pool_patterns, mask, result, raised, input,
                   first, call, queryVars, matchVars, enrichVars, extractVars,
                   stream, fail_after, search_query, runVars>>

\* line 54: the generator is exhausted and the loop ends
FetchExhausted ==
    /\ pc = "fetch_loop"
    /\ yielded # fail_after
    /\ yielded = Len(stream)
    /\ pc' = "fetch_collected"
    /\ UNCHANGED <<pools, df, pool_patterns, mask, result, raised, input, first,
                   call, queryVars, matchVars, enrichVars, extractVars,
                   fetchVars, runVars>>

\* lines 54, 79-83: the generator raises; the except block prints
FetchExcept ==
    /\ pc = "fetch_loop"
    /\ yielded = fail_after
    /\ pc' = "fetch_collected"
    /\ UNCHANGED <<pools, df, pool_patterns, mask, result, raised, input, first,
                   call, queryVars, matchVars, enrichVars, extractVars,
                   fetchVars, runVars>>

\* lines 86-91
FetchReturn ==
    /\ pc = "fetch_collected"
    /\ result' = DataFrame(papers_data)
    /\ pc' = "fetch_done"
    /\ UNCHANGED <<pools, df, pool_patterns, mask, raised, input, first, call,
                   queryVars, matchVars, enrichVars, extractVars, fetchVars,
                   runVars>>

(***************************************************************************)
(* SpecFetch: one call of arxiv_query_to_dataframe                          *)
(***************************************************************************)
MaxStream == 3

Results ==
    { [title |-> Str(S_a), summary |-> Str(<<"B">>),
       entry_id |-> Str(<<"h", "t", "t", "p", ":", "/", "/", "a", "r", "x", "i", "v", ".", "o", "r", "g", "/", "a", "b", "s", "/", "0", "7", ".", "0", "v", "1">>),
       published |-> Obj(2020)],
      [title |-> Str(S_ab), summary |-> Str(S_empty),
       entry_id |-> Str(<<"h", "t", "t", "p", ":", "/", "/", "a", "r", "x", "i", "v", ".", "o", "r", "g", "/", "a", "b", "s", "/", "m", "a", "t", "h", "/", "7", "v", "1">>),
       published |-> Obj(2021)],
      [title |-> Str(S_a), summary |-> Str(S_b),
       entry_id |-> Str(<<"h", "t", "t", "p", ":", "/", "/", "a", "r", "x", "i", "v", ".", "o", "r", "g", "/", "a", "b", "s", "/", "0", ".", "7", "v", "2">>),
       published |-> None] }

\* the generators of at most n results
Generators(n) ==
    { [stream |-> s, fail_after |-> k] :
        s \in UNION {[1..l -> Results] : l \in 0..n}, k \in -1..n }

InitFetch ==
    /\ pc = "fetch_start"
    /\ \E g \in Generators(MaxStream) :
           /\ g.fail_after <= Len(g.stream)
           /\ stream = g.stream
           /\ fail_after = g.fail_after
    /\ search_query = <<"t", "i", ":", "a">>
    /\ yielded = 0
    /\ papers_data = <<>>
    /\ pools = <<>>
    /\ df = EmptyFrame
    /\ pool_patterns = <<>>
    /\ mask = <<>>
    /\ result = EmptyFrame
    /\ raised = NoException
    /\ input = EmptyFrame
    /\ first = EmptyFrame
    /\ call = 0
    /\ QueryIdle
    /\ MatchIdle
    /\ EnrichIdle
    /\ ExtractIdle
    /\ RunIdle

NextFetch ==
    FetchBegin \/ FetchNext \/ FetchExhausted \/ FetchExcept \/ FetchReturn

SpecFetch == InitFetch /\ [][NextFetch]_vars

-----------------------------------------------------------------------------
(***************************************************************************)
(* run_search.  data.csv is a header and one line per row; a field is the   *)
(* text of a value, empty for a null and for the empty str.  The calls      *)
(* run_search makes are the actions of the functions called, between the    *)
(* steps of run_search itself.                                              *)
(***************************************************************************)
\* the columns of paper_info that hold a str
StrColumns == {"title", "url", "arxiv_id", "summary"}

\* a field of the file: str(value), or nothing
CsvField(c, v) ==
    IF v.null # "" THEN [na |-> TRUE, str |-> <<>>]
    ELSE IF c \in StrColumns /\ v.s = <<>> THEN [na |-> TRUE, str |-> <<>>]
    ELSE [na |-> FALSE, str |-> v.s]

\* df.to_csv(data_path): the index is written as a first column without a name
to_csv(d) ==
    [exists |-> TRUE,
     header |-> {""} \cup d.columns,
     lines |-> [i \in DOMAIN d.rows |->
                   [c \in {""} \cup d.columns |->
                       IF c = "" THEN CsvField(c, Obj(d.index[i]))
                       ELSE CsvField(c, d.rows[i][c])]]]

\* pd.read_csv(data_path): the nameless column is read as "Unnamed: 0", an
\* empty field as NaN, any other as the value parsed from its text
read_csv(f) ==
    LET name(c) == IF c = "" THEN "Unnamed: 0" ELSE c
        field(c) == IF c = "Unnamed: 0" THEN "" ELSE c
        cols == { name(c) : c \in f.header }
    IN  [columns |-> cols,
         index |-> [i \in DOMAIN f.lines |-> i - 1],
         rows |-> [i \in DOMAIN f.lines |->
                      [c \in cols |->
                          IF f.lines[i][field(c)].na THEN NaN
                          ELSE Obj(f.lines[i][field(c)].str)]]]

\* line 36
NeedsDownloadAlways(force, file) == TRUE

NeedsDownload(force, file) == force \/ ~file.exists

\* lines 30-37: the download branch is taken; build_arxiv_query is called
RunDownload ==
    /\ pc = "run_start"
    /\ NeedsDownload(force_download, csv)
    /\ log' = Append(log, "build_arxiv_query")
    /\ pc' = "query_start"
    /\ UNCHANGED <<pools, df, pool_patterns, mask, result, raised, input, first,
                   call, queryVars, matchVars, enrichVars, extractVars,
                   fetchVars, force_download, use_citations, csv, csv_before,
                   plot_saved>>

\* lines 30-36, 44-45: the cached data is loaded
RunLoad ==
    /\ pc = "run_start"
    /\ ~NeedsDownload(force_download, csv)
    /\ df' = read_csv(csv)
    /\ log' = Append(log, "read_csv")
    /\ pc' = "run_loaded"
    /\ UNCHANGED <<pools, pool_patterns, mask, result, raised, input, first,
                   call, queryVars, matchVars, enrichVars, extractVars,
                   fetchVars, force_download, use_citations, csv, csv_before,
                   plot_saved>>

\* line 39: arxiv_query_to_dataframe(query, max_results) is called
RunFetch ==
    /\ pc = "query_done"
    /\ search_query' = query
    /\ log' = Append(log, "arxiv_query_to_dataframe")
    /\ pc' = "fetch_start"
    /\ UNCHANGED <<pools, df, pool_patterns, mask, result, raised, input, first,
                   call, queryVars, matchVars, enrichVars, extractVars,
                   stream, fail_after, yielded, papers_data, force_download,
                   use_citations, csv, csv_before, plot_saved>>

\* lines 39-40: filter_dataframe_by_pools(df, pools) is called with the frame
\* returned
RunFilter ==
    /\ pc = "fetch_done"
    /\ df' = result
    /\ log' = Append(log, "filter_dataframe_by_pools")
    /\ pc' = "filter_start"
    /\ UNCHANGED <<pools, pool_patterns, mask, result, raised, input, first,
                   call, queryVars, matchVars, enrichVars, extractVars,
                   fetchVars, force_download, use_citations, csv, csv_before,
                   plot_saved>>

\* lines 40-42: enrich_with_citations(df) is called with the filtered frame
RunEnrich ==
    /\ pc = "filter_done"
    /\ raised = NoException
    /\ use_citations
    /\ df' = result
    /\ log' = Append(log, "enrich_with_citations")
    /\ pc' = "enrich_loop"
    /\ UNCHANGED <<pools, pool_patterns, mask, result, raised, input, first,
                   call, queryVars, matchVars, enrichVars, extractVars,
                   fetchVars, force_download, use_citations, csv, csv_before,
                   plot_saved>>

\* lines 40-43: df.to_csv(data_path)
RunWrite ==
    /\ \/ pc = "filter_done" /\ ~use_citations
       \/ pc = "enrich_done"
    /\ raised = NoException
    /\ df' = result
    /\ csv' = to_csv(result)
    /\ log' = Append(log, "to_csv")
    /\ pc' = "run_loaded"
    /\ UNCHANGED <<pools, pool_patterns, mask, result, raised, input, first,
                   call, queryVars, matchVars, enrichVars, extractVars,
                   fetchVars, force_download, use_citations, csv_before,
                   plot_saved>>

\* lines 40, 42: the exception of the function called leaves run_search
RunRaise ==
    /\ pc \in {"filter_done", "enrich_done"}
    /\ raised # NoException
    /\ pc' = "run_raised"
    /\ UNCHANGED <<pools, df, pool_patterns, mask, result, raised, input, first,
                   call, queryVars, matchVars, enrichVars, extractVars,
                   fetchVars, runVars>>

\* lines 47-54 and plot_papers_per_year.py lines 26-68: the figure is saved
\* unless the frame is empty or has no year column
RunPlot ==
    /\ pc = "run_loaded"
    /\ plot_saved' = (~DfEmpty(df) /\ "year" \in df.columns)
    /\ pc' = "run_done"
    /\ UNCHANGED <<pools, df, pool_patterns, mask, result, raised, input, first,
                   call, queryVars, matchVars, enrichVars, extractVars,
                   fetchVars, force_download, use_citations, csv, csv_before,
                   log>>

(***************************************************************************)
(* SpecRun: one call of run_search                                          *)
(***************************************************************************)
\* pool sets: well-formed ones and one with an empty pool
RunPools == { <<<<S_a>>>>, <<<<S_a_b, S_b>>, <<S_a>>>>, <<<<>>>> }

RunCategories == { << <<"c", "s", ".", "*">> >> }

\* data.csv as an earlier run left it
CachedFiles ==
    { to_csv(DataFrame(<<PaperInfo(r)>>)) :
        r \in {x \in Results : HasPublished(x) /\ x.published.s = 2020} }

\* what sch.get_paper does for a row: it returns a paper cited once, it
\* raises, or iterating the paper's citations raises
RunLookups ==
    { [paper |-> p, fails |-> f] :
        p \in {x \in Papers : x.citationCount = 1},
        f \in {"none", "get_paper", "titles"} }

\* the collaborators of a run that makes no call to them are left out
InitRun ==
    /\ pc = "run_start"
    /\ pools \in RunPools
    /\ categories \in RunCategories
    /\ force_download \in BOOLEAN
    /\ use_citations \in BOOLEAN
    /\ csv \in {NoFile} \cup CachedFiles
    /\ csv_before = csv
    /\ \E g \in Generators(MaxRows) :
           /\ g.fail_after <= Len(g.stream)
           /\ stream = g.stream
           /\ fail_after = g.fail_after
    /\ lookups \in [1..MaxRows -> RunLookups]
    /\ ~NeedsDownload(force_download, csv) => stream = <<>> /\ fail_after = -1
    /\ ~(NeedsDownload(force_download, csv) /\ use_citations) =>
           \A i \in DOMAIN lookups : lookups[i].fails = "none"
    /\ log = <<>>
    /\ plot_saved = FALSE
    /\ yielded = 0
    /\ papers_data = <<>>
    /\ search_query = <<>>
    /\ pool_queries = <<>>
    /\ query = <<>>
    /\ df = EmptyFrame
    /\ pool_patterns = <<>>
    /\ mask = <<>>
    /\ result = EmptyFrame
    /\ raised = NoException
    /\ input = EmptyFrame
    /\ first = EmptyFrame
    /\ call = 0
    /\ citation_counts = <<>>
    /\ citations_titles = <<>>
    /\ citations_authors = <<>>
    /\ citations_years = <<>>
    /\ rows_done = 0
    /\ MatchIdle
    /\ ExtractIdle

NextRun ==
    \/ RunDownload \/ RunLoad
    \/ QueryPool \/ QueryJoin \/ QueryAddCategories
    \/ RunFetch
    \/ FetchBegin \/ FetchNext \/ FetchExhausted \/ FetchExcept \/ FetchReturn
    \/ RunFilter
    \/ FilterFastPath \/ FilterBegin \/ FilterCompilePool \/ FilterApply
    \/ FilterReturn
    \/ RunEnrich
    \/ EnrichTry \/ EnrichExcept \/ EnrichAssign
    \/ RunWrite \/ RunRaise \/ RunPlot

SpecRun == InitRun /\ [][NextRun]_vars

-----------------------------------------------------------------------------
(* Properties of the pool matcher (SpecMatch) *)

\* the term of the one-term pool
MatchTerm == pools[1][1]

\* a term of a TermPool: not empty, not whitespace only
IsBlank(term) == \A i \in DOMAIN term : IsSpaceChar(term[i])

RECURSIVE OccursBetween(_, _, _, _, _)
\* term[k..] is written in s from position i up to, not including, position e:
\* letters compared without case, a space of the term standing for a non-empty
\* run of whitespace
OccursBetween(term, k, s, i, e) ==
    IF k > Len(term) THEN i = e
    ELSE IF term[k] = " "
    THEN \E n \in 1..(e - i) :
            /\ \A j \in i..(i + n - 1) : IsSpaceChar(s[j])
            /\ OccursBetween(term, k + 1, s, i + n, e)
    ELSE /\ i < e
         /\ ToLower(s[i]) = ToLower(term[k])
         /\ OccursBetween(term, k + 1, s, i + 1, e)

\* the term occurs in s with no word character right before or right after it
OccursAsWholeWord(term, s) ==
    \E i \in 1..(Len(s) + 1) : \E e \in i..(Len(s) + 1) :
        /\ OccursBetween(term, 1, s, i, e)
        /\ (i = 1 \/ ~IsWordChar(s[i - 1]))
        /\ (e = Len(s) + 1 \/ ~IsWordChar(s[e]))

\* C2: the pool matcher finds a term exactly when the term occurs in the text
\* as a whole word or phrase, i.e. with no word character immediately before
\* or after the occurrence, whatever the first and last characters of the
\* term are.
C2_WholeWordMatch ==
    (pc = "match_done" /\ ~IsBlank(MatchTerm))
        => (found <=> OccursAsWholeWord(MatchTerm, text))

RECURSIVE Words(_, _, _)
\* the whitespace-separated words of s, in lower case
Words(s, cur, acc) ==
    IF s = <<>> THEN (IF cur = <<>> THEN acc ELSE Append(acc, cur))
    ELSE IF IsSpaceChar(s[1])
    THEN Words(Tail(s), <<>>, IF cur = <<>> THEN acc ELSE Append(acc, cur))
    ELSE Words(Tail(s), Append(cur, ToLower(s[1])), acc)

-----------------------------------------------------------------------------
(* Properties of filter_dataframe_by_pools (SpecFilter) *)

\* every record of the frame has a title and a summary, both str
HasTitleAndSummary(d) ==
    /\ {"title", "summary"} \subseteq d.columns
    /\ \A i \in DOMAIN d.rows :
           d.rows[i]["title"].null = "" /\ d.rows[i]["summary"].null = ""

\* the title+summary text of a record that has both
TitleSummaryText(row) == row["title"].s \o <<" ">> \o row["summary"].s

\* the matcher of the one term finds it in the text
TermFound(term, s) == Search(PoolPattern(<<term>>), s)

\* at least one term of every pool is found in the record's text
MatchesEveryPool(row, ps) ==
    \A p \in DOMAIN ps : \E t \in DOMAIN ps[p] :
        TermFound(ps[p][t], TitleSummaryText(row))

RECURSIVE MatchingRows(_, _)
\* the subsequence of the rows that match every pool
MatchingRows(rows, ps) ==
    IF rows = <<>> THEN <<>>
    ELSE (IF MatchesEveryPool(rows[1], ps) THEN <<rows[1]>> ELSE <<>>)
         \o MatchingRows(Tail(rows), ps)

\* C1: for records that have a title and a summary and a non-empty set of
\* non-empty pools, the filter returns exactly the subsequence of the input
\* records that match every pool (at least one term of the pool is found in
\* title + " " + summary), in their original order, unaltered.
C1_FilterSubsequence ==
    (/\ pc = "filter_done"
     /\ call = 1
     /\ HasTitleAndSummary(input)
     /\ pools # <<>>
     /\ \A p \in DOMAIN pools : pools[p] # <<>>)
        => /\ raised = NoException
           /\ result.rows = MatchingRows(input.rows, pools)
           /\ result.columns = input.columns

C1_Witness ==
    /\ pc = "filter_done"
    /\ call = 1
    /\ HasTitleAndSummary(input)
    /\ Len(pools) = 2
    /\ \A p \in DOMAIN pools : pools[p] # <<>>
    /\ Len(input.rows) = 2
    /\ input.rows[1] # input.rows[2]
    /\ result.rows = <<input.rows[2]>>

\* the record has a title and a summary: the columns exist and hold a str
HasFields(d, i) ==
    /\ {"title", "summary"} \subseteq d.columns
    /\ d.rows[i]["title"].null = ""
    /\ d.rows[i]["summary"].null = ""

RECURSIVE PresentMatchingRows(_, _, _)
\* the rows i >= k that have a title and a summary and match every pool matcher
PresentMatchingRows(d, ps, k) ==
    IF k > Len(d.rows) THEN <<>>
    ELSE (IF /\ HasFields(d, k)
             /\ \A p \in DOMAIN ps :
                    Search(PoolPattern(ps[p]), TitleSummaryText(d.rows[k]))
          THEN <<d.rows[k]>> ELSE <<>>)
         \o PresentMatchingRows(d, ps, k + 1)

\* C3: a record missing title or summary is a non-match for that record only:
\* the call does not fail, the record is not in the result, and every other
\* record is kept or dropped by the normal rule.
C3_MissingFieldIsNonMatch ==
    (pc = "filter_done" /\ call = 1)
        => /\ raised = NoException
           /\ result.rows = PresentMatchingRows(input, pools, 1)

\* every row of the frame matches every pool matcher
AllRowsMatch(d, ps) ==
    /\ {"title", "summary"} \subseteq d.columns
    /\ \A i \in DOMAIN d.rows : \A p \in DOMAIN ps :
           Search(PoolPattern(ps[p]), RowText(d.rows[i]))

\* C9: filtering the returned frame again with the same pools returns it
\* unchanged, and a frame whose records all match comes back with the same
\* records in the same order.
C9_Idempotent ==
    /\ (pc = "filter_done" /\ call = 2)
           => (raised = NoException /\ result = first)
    /\ (pc = "filter_done" /\ call = 1 /\ raised = NoException
            /\ AllRowsMatch(input, pools))
           => (result.rows = input.rows /\ result.columns = input.columns)

C9_Witness ==
    /\ pc = "filter_done"
    /\ call = 2
    /\ pools # <<>>
    /\ Len(input.rows) = 2
    /\ Len(first.rows) = 1
    /\ result = first

\* C10: filtering a frame with no records returns it unchanged and raises
\* nothing, whatever the pools are.
C10_EmptyUnchanged ==
    (pc = "filter_done" /\ call = 1 /\ Len(input.index) = 0)
        => (raised = NoException /\ result = input)

C10_Witness ==
    /\ pc = "filter_done"
    /\ call = 1
    /\ Len(input.index) = 0
    /\ input.columns = {"title", "summary"}
    /\ \E p \in DOMAIN pools : pools[p] = <<>>
    /\ pool_patterns = <<>>
    /\ result = input

-----------------------------------------------------------------------------
(* Properties of the query builder (SpecQuery) *)

\* the term in double quotes iff `quoted`
Quoted(term, quoted) == IF quoted THEN QUOTE \o term \o QUOTE ELSE term

HasSpace(term) == \E i \in DOMAIN term : term[i] = " "
HasWhitespace(term) == \E i \in DOMAIN term : IsSpaceChar(term[i])

\* (ti:(T) OR abs:(T)), T the pool's terms joined with " OR ", each term in
\* double quotes iff it contains a space
SpaceGroup(pool) ==
    LET T == Join([i \in DOMAIN pool |-> Quoted(pool[i], HasSpace(pool[i]))], OR_)
    IN  <<"(", "t", "i", ":", "(">> \o T \o <<")">> \o OR_
        \o <<"a", "b", "s", ":", "(">> \o T \o <<")", ")">>

\* the same, each term in double quotes iff it contains a whitespace character
WhitespaceGroup(pool) ==
    LET T == Join([i \in DOMAIN pool |->
                      Quoted(pool[i], HasWhitespace(pool[i]))], OR_)
    IN  <<"(", "t", "i", ":", "(">> \o T \o <<")">> \o OR_
        \o <<"a", "b", "s", ":", "(">> \o T \o <<")", ")">>

\* C6 as claimed: in the built query each term is in double quotes iff it
\* contains a whitespace character of any kind.
C6_QuotedIffWhitespace ==
    pc = "query_built"
        => query = Join([p \in DOMAIN pools |-> WhitespaceGroup(pools[p])], AND_)

\* C6 as amended: in the built query each term is in double quotes iff it
\* contains a space character; a term with a tab but no space is left bare.
C6_QuotedIffSpace ==
    pc = "query_built"
        => query = Join([p \in DOMAIN pools |-> SpaceGroup(pools[p])], AND_)

C6_Witness ==
    /\ pc = "query_built"
    /\ pools = << <<S_a_b, S_dot>>, <<S_aTABb, S_b>> >>
    /\ query = Join(<< SpaceGroup(<<S_a_b, S_dot>>),
                       PoolQuery(S_aTABb \o OR_ \o S_b) >>, AND_)

\* C7: the query with the category filter is
\* (G1 AND ... AND Gn) AND cat:(c1 OR ... OR cm), Gi = (ti:(Ti) OR abs:(Ti)),
\* one group per pool in pool order, the category clause last.
C7_QueryStructure ==
    pc = "query_done"
        => query =
             <<"(">> \o Join([p \in DOMAIN pools |-> SpaceGroup(pools[p])], AND_)
             \o <<")">> \o AND_ \o <<"c", "a", "t", ":", "(">>
             \o Join(categories, OR_) \o <<")">>

C7_Witness ==
    /\ pc = "query_done"
    /\ Len(pools) = 2
    /\ Len(pools[1]) = 2
    /\ Len(categories) = 2
    /\ categories[1] # categories[2]

-----------------------------------------------------------------------------
(* Malformed pools (SpecPools) *)

\* the pool is empty or one of its terms is empty or whitespace only
MalformedPool(pool) ==
    pool = <<>> \/ \E t \in DOMAIN pool : IsBlank(pool[t])

\* how a failure names the pool at position i (counted from 0)
PoolIndexName(i) == <<"0", "1", "2", "3">>[i]

\* C4: given a malformed pool, build_arxiv_query and filter_dataframe_by_pools
\* (on a frame that has records) return nothing: each ends with a failure that
\* names the index of an offending pool.
C4_MalformedPoolRejected ==
    (/\ pc \in {"query_built", "filter_done"}
     /\ pc = "filter_done" => Len(input.index) > 0
     /\ call = 1
     /\ \E p \in DOMAIN pools : MalformedPool(pools[p]))
        => /\ raised.type # ""
           /\ raised.arg \in {PoolIndexName(p) :
                                p \in {q \in DOMAIN pools : MalformedPool(pools[q])}}

-----------------------------------------------------------------------------
(* Properties of enrich_with_citations (SpecEnrich) *)

CitationColumns ==
    {"citation_count", "citations_titles", "citations_authors", "citations_years"}

\* C5: whatever lookups fail, and wherever in the try block, the call returns
\* a frame with the input rows in the input order, null in the four citation
\* columns of each failed record and its own values for each other record.
C5_PartialEnrichment ==
    pc = "enrich_done"
        => /\ raised = NoException
           /\ result.index = input.index
           /\ \A i \in DOMAIN input.rows :
                 /\ result.rows[i]["arxiv_id"] = input.rows[i]["arxiv_id"]
                 /\ IF lookups[i].fails # "none"
                    THEN \A c \in CitationColumns : result.rows[i][c].null = "None"
                    ELSE /\ \A c \in CitationColumns : result.rows[i][c].null = ""
                         /\ result.rows[i]["citation_count"].s
                                = lookups[i].paper.citationCount
                         /\ result.rows[i]["citations_titles"].s
                                = lookups[i].paper.titles
                         /\ result.rows[i]["citations_authors"].s
                                = lookups[i].paper.authors
                         /\ result.rows[i]["citations_years"].s
                                = lookups[i].paper.years

-----------------------------------------------------------------------------
(***************************************************************************)
(* Properties of extract_arxiv_id (SpecExtract)                             *)
(***************************************************************************)
AbstractUrl(id, n) ==
    <<"h", "t", "t", "p", "s", ":", "/", "/">> \o ArxivAbs \o id \o <<"v">> \o n

IsAbstractUrl(u) ==
    \E sc \in Schemes, id \in ArxivIds, v \in VersionSuffixes :
        u = sc \o ArxivAbs \o id \o v

\* C14: for every URL https://arxiv.org/abs/<id>v<n> extract_arxiv_id
\* returns <id>, the full identifier without the version suffix, also when
\* the identifier contains a slash or the letter v; for an empty or missing
\* URL, and for a URL that is not an arXiv abstract URL, it returns None.
C14_ExtractFullId ==
    pc = "extract_done" =>
        /\ \A id \in ArxivIds, n \in VersionNumbers :
               url = Str(AbstractUrl(id, n)) => arxiv_id = Str(id)
        /\ (url = None \/ url = Str(<<>>)) => arxiv_id = None
        /\ (url.null = "" /\ url.s # <<>> /\ ~IsAbstractUrl(url.s)) =>
               arxiv_id = None

-----------------------------------------------------------------------------
(***************************************************************************)
(* Properties of arxiv_query_to_dataframe (SpecFetch)                       *)
(***************************************************************************)
\* the results the generator yielded before it raised or ran out
Received ==
    IF fail_after = -1 THEN stream ELSE SubSeq(stream, 1, fail_after)

IsDated(r) == r.published.null # "None"

\* the received results that have a publication date, in the order received
DatedReceived == SelectSeq(Received, IsDated)

\* C12: when the search collaborator raises after k results (k >= 0),
\* arxiv_query_to_dataframe raises nothing and returns a table holding
\* exactly the results received before the failure that have a publication
\* date, in the order received.
C12_PartialFetch ==
    /\ pc \in {"fetch_start", "fetch_loop", "fetch_collected", "fetch_done"} =>
           raised = NoException
    /\ (pc = "fetch_done" /\ fail_after # -1) =>
           /\ Len(result.rows) = Len(DatedReceived)
           /\ Len(result.index) = Len(DatedReceived)
           /\ \A i \in DOMAIN DatedReceived :
                  /\ result.rows[i].title = DatedReceived[i].title
                  /\ result.rows[i].url = DatedReceived[i].entry_id
                  /\ result.rows[i].summary = DatedReceived[i].summary
                  /\ result.rows[i].year.s = DatedReceived[i].published.s

\* the generator raised after two results, one dated and one not, and a
\* third result was never received
C12_Witness ==
    /\ pc = "fetch_done"
    /\ fail_after = 2
    /\ Len(stream) = 3
    /\ Len(DatedReceived) = 1
    /\ Len(result.rows) = 1

-----------------------------------------------------------------------------
(***************************************************************************)
(* Properties of run_search (SpecRun)                                       *)
(***************************************************************************)
Called(f) == \E i \in DOMAIN log : log[i] = f

\* C11: on a run given a malformed pool set run_search stops before any
\* network interaction: arxiv_query_to_dataframe and enrich_with_citations
\* are never called and data.csv is not written.
C11_NoNetworkOnMalformedPools ==
    (\E p \in DOMAIN pools : MalformedPool(pools[p])) =>
        /\ ~Called("arxiv_query_to_dataframe")
        /\ ~Called("enrich_with_citations")
        /\ ~Called("to_csv")
        /\ csv = csv_before

\* the download branch of this run
Downloads == force_download \/ csv_before = NoFile

\* the calls of a download, in order
DownloadCalls ==
    <<"build_arxiv_query", "arxiv_query_to_dataframe",
      "filter_dataframe_by_pools">>
    \o (IF use_citations THEN <<"enrich_with_citations">> ELSE <<>>)
    \o <<"to_csv">>

IsPrefix(s, t) == Len(s) <= Len(t) /\ s = SubSeq(t, 1, Len(s))

\* the record passes the Pool Filter: every pool matcher finds a match in
\* its title and summary
PassesPoolFilter(r) ==
    \A p \in DOMAIN pools : Search(PoolPattern(pools[p]), TitleSummaryText(r))

\* the fetched records that pass the Pool Filter, in order
PassingRecords == SelectSeq(papers_data, PassesPoolFilter)

\* the query of the pools joined with the category filter
CategoryQuery ==
    add_category_filter(
        Join([i \in DOMAIN pools |-> PoolQuery(format_pool(pools[i]))], AND_),
        categories)

\* C13: run_search downloads only if needed.  With data.csv present and
\* force_download false no query is built, no collaborator is called and
\* data.csv stays as it was.  Otherwise the calls are, in this order: build
\* query (with the category filter added before the fetch), fetch, Pool
\* Filter, enrichment only if use_citations, write data.csv; the frame given
\* to the enrichment and the records written to data.csv are the fetched
\* records that pass the Pool Filter.
C13_DownloadOnlyIfNeeded ==
    /\ ~Downloads =>
           /\ IsPrefix(log, <<"read_csv">>)
           /\ pool_queries = <<>> /\ query = <<>> /\ search_query = <<>>
           /\ yielded = 0 /\ rows_done = 0
           /\ csv = csv_before
    /\ Downloads =>
           /\ IsPrefix(log, DownloadCalls)
           /\ pc = "run_done" => log = DownloadCalls
           /\ Called("arxiv_query_to_dataframe") =>
                  search_query = CategoryQuery
           /\ ~Called("arxiv_query_to_dataframe") => yielded = 0
           /\ ~Called("enrich_with_citations") => rows_done = 0
           /\ pc \in {"enrich_loop", "enrich_except", "enrich_done"} =>
                  /\ use_citations
                  /\ df.rows = PassingRecords
           /\ IF Called("to_csv")
              THEN /\ csv.exists
                   /\ Len(csv.lines) = Len(PassingRecords)
                   /\ \A i \in DOMAIN csv.lines :
                          /\ csv.lines[i]["url"].str = PassingRecords[i].url.s
                          /\ csv.lines[i]["title"].str = PassingRecords[i].title.s
              ELSE csv = csv_before

\* a forced download over an existing data.csv: two records fetched, one
\* passes the Pool Filter, is enriched and written
C13_Witness ==
    /\ pc = "run_done"
    /\ force_download /\ use_citations /\ csv_before # NoFile
    /\ Len(papers_data) = 2
    /\ Len(PassingRecords) = 1
    /\ Len(csv.lines) = 1
    /\ "citation_count" \in csv.header
    /\ csv # csv_before
    /\ log = DownloadCalls

====
